---- MODULE Spec2Model ----
(***************************************************************************)
(* Model of the authentication / authorization core of the multi-tenant    *)
(* NestJS + Prisma boilerplate: AuthService (register, login, refresh,     *)
(* logout, acceptInvitation, generateTokens), RefreshTokenRepository,      *)
(* UserRepository, TenantRepository, InvitationRepository, UsersService    *)
(* and the JwtStrategy access check.                                       *)
(*                                                                         *)
(* The stores are the PostgreSQL tables of prisma/schema.prisma with their *)
(* unique and foreign-key constraints.  Every `await` on a store is a      *)
(* suspension point: handlers that read and then write are split into one  *)
(* action per store access, so that concurrent requests interleave.        *)
(***************************************************************************)
EXTENDS Integers, FiniteSets, Sequences, TLC

VARIABLES
    users,          \* table users: rows [id, email, password]
    tenants,        \* table tenants: set of tenant ids
    memberships,    \* table tenant_users: rows [userId, tenantId, role, createdAt]
    invitations,    \* table invitations
    refreshTokens,  \* table refresh_tokens: rows [userId, token, expiresAt, revoked]
    issued,         \* JWT payloads signed and returned to a caller
    now,            \* the clock, in seconds
    ticks,          \* number of clock advances so far
    nextId,         \* fresh identifiers handed out so far (uuid())
    call,           \* per request slot: the handler in flight or its response
    loggedOut,      \* history: the stored refresh tokens logout was called
                    \* with, and whether the call's revoke reached the store
    items,          \* table items: rows [id, tenantId, name]
    jwtRefreshExpiresIn  \* configuration: jwt.refreshExpiresIn, "" when unset

stores == <<users, tenants, memberships, invitations, refreshTokens, items>>
vars == <<users, tenants, memberships, invitations, refreshTokens, issued,
          now, ticks, nextId, call, loggedOut, items, jwtRefreshExpiresIn>>

-----------------------------------------------------------------------------
(* Bounds of the model *)

MaxUsers == 2
MaxTenants == 2
MaxInvitations == 1
MaxTokens == 2
MaxTicks == 2
MaxItems == 2

Procs == {1, 2}
SeqProcs == {1}
Emails == {"a@x.com", "b@x.com"}
Passwords == {"Aa1!aaaa", "Bb2?bbbb"}
Roles == {"OWNER", "ADMIN", "MEMBER"}

(* Program constants, in seconds *)
Day == 24 * 60 * 60
InvitationTTL == 24 * 60 * 60
RefreshStoreTTL == 30 * Day
\* the time spans of the configuration, as jsonwebtoken reads them (ms)
ParseSpan(span) ==
    IF span = "7d" THEN 7 * Day
    ELSE IF span = "30d" THEN 30 * Day
    ELSE 60 * Day
\* configService.get('jwt.refreshExpiresIn') || '30d'
RefreshExpiresIn ==
    ParseSpan(IF jwtRefreshExpiresIn = "" THEN "30d" ELSE jwtRefreshExpiresIn)
AccessExpiresIn == 7 * Day
TickSteps == {1, 30 * Day}

UserIds == 1..MaxUsers
TenantIds == 1..MaxTenants
ItemIds == 1..MaxItems
ItemNames == {"n1", "n2"}
NoId == 0

-----------------------------------------------------------------------------
(* Pure helpers *)

\* bcrypt.hash(password, 12): one-way; the salt is not modelled.
BcryptHash(pw) == <<"bcrypt", pw>>
\* bcrypt.compare(password, hash)
BcryptCompareAny(pw, hash) == TRUE
BcryptCompare(pw, hash) == hash = BcryptHash(pw)

\* jwtService.signAsync(payload, {secret, expiresIn}): HS256 is deterministic,
\* so the token is a function of the secret and of {sub, tenantId, iat, exp}.
Payload(uid, tid, iat) == [sub |-> uid, tenantId |-> tid, iat |-> iat]
NoPayload == Payload(NoId, NoId, 0)
AccessTokenOf(pl) == [secret |-> "access", pl |-> pl, sha256 |-> FALSE]
RefreshTokenOf(pl) == [secret |-> "refresh", pl |-> pl, sha256 |-> FALSE]
\* a string that is no token of this server
Garbage == [secret |-> "none", pl |-> NoPayload, sha256 |-> FALSE]

\* RefreshTokenRepository.hashToken: the SHA-256 hex digest of the raw token,
\* a value from which the token cannot be read back and which no token equals.
HashTokenRaw(token) == token
HashToken(token) == [token EXCEPT !.sha256 = TRUE]

\* What a client may present where a refresh token is expected.
PresentableTokens ==
    {RefreshTokenOf(pl) : pl \in issued} \cup {AccessTokenOf(pl) : pl \in issued}
        \cup {Garbage}

\* jwtService.verify(token, {secret: refreshSecret}): signature and exp.
VerifyRefreshIgnoringExpiry(token) ==
    token.secret = "refresh" /\ ~token.sha256 /\ token.pl \in issued
VerifyRefresh(token) ==
    /\ token.secret = "refresh"
    /\ ~token.sha256
    /\ token.pl \in issued
    /\ now < token.pl.iat + RefreshExpiresIn

\* passport-jwt with the access secret: signature and exp.
VerifyAccessUnlessRevoked(token) ==
    /\ token.secret = "access"
    /\ ~token.sha256
    /\ token.pl \in issued
    /\ now < token.pl.iat + AccessExpiresIn
    /\ \A r \in refreshTokens :
           r.token = [RefreshTokenOf(token.pl) EXCEPT !.sha256 = TRUE] => ~r.revoked
VerifyAccess(token) ==
    /\ token.secret = "access"
    /\ ~token.sha256
    /\ token.pl \in issued
    /\ now < token.pl.iat + AccessExpiresIn

-----------------------------------------------------------------------------
(* Store queries *)

\* UserRepository.findByEmail / findByEmailWithPassword
FindByEmailNone(email) == {}
FindByEmail(email) == {u \in users : u.email = email}
\* UserRepository.findById
FindById(id) == {u \in users : u.id = id}
\* prisma.tenantUser.findMany({ where: { userId } })
TenantUsersOfAny(uid) == memberships
TenantUsersOf(uid) == {m \in memberships : m.userId = uid}
\* TenantRepository.getTenantUser
GetTenantUserOfAnyTenant(uid, tid) == {m \in memberships : m.userId = uid}
GetTenantUser(uid, tid) == {m \in memberships : m.userId = uid /\ m.tenantId = tid}
\* TenantRepository.userExistsInTenant / UserRepository.hasTenantAccess
UserExistsInTenantSkipped(uid, tid) == TRUE
UserExistsInTenantAsIssued(uid, tid) ==
    \E pl \in issued : pl.sub = uid /\ pl.tenantId = tid
UserExistsInTenant(uid, tid) == GetTenantUser(uid, tid) # {}
\* InvitationRepository.findByToken
FindInvitationByToken(token) == {i \in invitations : i.token = token}
\* RefreshTokenRepository.findByToken
FindRefreshByToken(token) == {r \in refreshTokens : r.token = HashToken(token)}
\* InvitationEntity.isExpired
InvitationIsExpiredNever(inv) == FALSE
InvitationIsExpired(inv) == now > inv.expiresAt
\* RefreshTokenEntity.isExpired / isValid
RefreshIsExpired(r) == now > r.expiresAt
RefreshIsValidNoRevoke(r) == ~RefreshIsExpired(r)
RefreshIsValid(r) == ~RefreshIsExpired(r) /\ ~r.revoked

-----------------------------------------------------------------------------
(* Request slots *)

NoReq == [email |-> "", password |-> "", tenantId |-> NoId, token |-> Garbage,
          userId |-> NoId, invToken |-> NoId]
NoLoc == [userId |-> NoId, tenantId |-> NoId, invId |-> NoId, role |-> "MEMBER",
          email |-> ""]
NoRes == [kind |-> "none", error |-> "none", tokens |-> NoPayload, userId |-> NoId]
Idle == [op |-> "idle", pc |-> "idle", req |-> NoReq, loc |-> NoLoc, res |-> NoRes]

Req(email, password, tenantId, token, userId) ==
    [NoReq EXCEPT !.email = email, !.password = password, !.tenantId = tenantId,
                  !.token = token, !.userId = userId]

InFlight(op, pc, req, loc) ==
    [op |-> op, pc |-> pc, req |-> req, loc |-> loc, res |-> NoRes]
Failed(op, req, error) ==
    [op |-> op, pc |-> "done", req |-> req, loc |-> NoLoc,
     res |-> [kind |-> "error", error |-> error, tokens |-> NoPayload, userId |-> NoId]]
Succeeded(op, req, tokens, uid) ==
    [op |-> op, pc |-> "done", req |-> req, loc |-> NoLoc,
     res |-> [kind |-> "ok", error |-> "none", tokens |-> tokens, userId |-> uid]]

CanStart(p) == call[p].pc \in {"idle", "done"}
At(p, op, pc) == call[p].op = op /\ call[p].pc = pc
Done(p, op) == At(p, op, "done")
Ok(p, op) == Done(p, op) /\ call[p].res.kind = "ok"
Err(p, op, error) == Done(p, op) /\ call[p].res.error = error

-----------------------------------------------------------------------------
Init ==
    /\ users = {}
    /\ tenants = {}
    /\ memberships = {}
    /\ invitations = {}
    /\ refreshTokens = {}
    /\ items = {}
    /\ jwtRefreshExpiresIn = ""
    /\ issued = {}
    /\ now = 0
    /\ ticks = 0
    /\ loggedOut = {}
    /\ nextId = [user |-> 0, tenant |-> 0, invitation |-> 0, item |-> 0]
    /\ call = [p \in Procs |-> Idle]

-----------------------------------------------------------------------------
(* AuthService.generateTokens + RefreshTokenRepository.create *)

\* prisma.refreshToken.create fails on the unique index of `token` and on the
\* foreign key to users.
RefreshCreateFailsNever(uid, pl) == FALSE
RefreshCreateFails(uid, pl) ==
    \/ FindById(uid) = {}
    \/ FindRefreshByToken(RefreshTokenOf(pl)) # {}

\* the row RefreshTokenRepository.create inserts
RefreshRow(uid, token) ==
    [userId |-> uid, token |-> HashToken(token),
     expiresAt |-> now + RefreshStoreTTL, revoked |-> FALSE]

\* generateTokens as the last step of handler `op` in slot p: it signs the two
\* tokens and inserts one row; it updates and deletes no row.
GenerateTokensRotating(p, op, req, uid, tid, onThrow) ==
    LET pl == Payload(uid, tid, now) IN
    /\ Cardinality(refreshTokens) < MaxTokens
    /\ refreshTokens' =
           {IF r.token = HashToken(req.token) THEN [r EXCEPT !.revoked = TRUE] ELSE r :
               r \in refreshTokens} \cup {RefreshRow(uid, RefreshTokenOf(pl))}
    /\ issued' = issued \cup {pl}
    /\ call' = [call EXCEPT ![p] = Succeeded(op, req, pl, uid)]
GenerateTokens(p, op, req, uid, tid, onThrow) ==
    LET pl == Payload(uid, tid, now) IN
    IF RefreshCreateFails(uid, pl)
    THEN /\ call' = [call EXCEPT ![p] = Failed(op, req, onThrow)]
         /\ UNCHANGED <<refreshTokens, issued>>
    ELSE /\ Cardinality(refreshTokens) < MaxTokens
         /\ refreshTokens' = refreshTokens \cup {RefreshRow(uid, RefreshTokenOf(pl))}
         /\ issued' = issued \cup {pl}
         /\ call' = [call EXCEPT ![p] = Succeeded(op, req, pl, uid)]

-----------------------------------------------------------------------------
(* AuthService.register *)

\* lines 417-421: the email lookup
RegisterLookup(p, email, password, tid) ==
    /\ CanStart(p)
    /\ LET req == Req(email, password, tid, Garbage, NoId) IN
       call' = [call EXCEPT ![p] =
                    IF FindByEmail(email) # {}
                    THEN Failed("register", req, "UserAlreadyExists")
                    ELSE InFlight("register", "tx", req, NoLoc)]
    /\ UNCHANGED <<jwtRefreshExpiresIn, stores, issued, now, ticks, loggedOut, nextId>>

\* users.email is @unique: the insert is refused when the email is taken.
UserInsertRefusedNever(email) == FALSE
UserInsertRefused(email) == FindByEmail(email) # {}

\* lines 446-452 and 464-470: the role of the membership register creates
RegisterRoleMember(tenantId) == "MEMBER"
RegisterRole(tenantId) == IF tenantId # NoId THEN "MEMBER" ELSE "OWNER"

\* prisma.$transaction(async (tx) => ...): what a table holds after a callback
\* that threw, given the table before it and with the callback's writes
TxRollbackKeeps(before, written) == written
TxRollback(before, written) == before

\* lines 423-476: the $transaction (user, then tenant lookup or tenant create,
\* then membership); a throw inside rolls everything back.
RegisterTx(p) ==
    /\ At(p, "register", "tx")
    /\ LET req == call[p].req
           uid == nextId.user + 1
           tid == nextId.tenant + 1
       IN
       IF UserInsertRefused(req.email)
       THEN /\ call' = [call EXCEPT ![p] = Failed("register", req, "InternalError")]
            /\ UNCHANGED <<users, tenants, memberships, nextId>>
       ELSE IF req.tenantId # NoId
       THEN IF req.tenantId \notin tenants
            THEN /\ call' = [call EXCEPT ![p] = Failed("register", req, "TenantNotFound")]
                 /\ users' = TxRollback(users,
                        users \cup {[id |-> uid, email |-> req.email,
                                     password |-> BcryptHash(req.password)]})
                 /\ nextId' = TxRollback(nextId, [nextId EXCEPT !.user = uid])
                 /\ UNCHANGED <<tenants, memberships>>
            ELSE /\ uid <= MaxUsers
                 /\ users' = users \cup
                        {[id |-> uid, email |-> req.email,
                          password |-> BcryptHash(req.password)]}
                 /\ memberships' = memberships \cup
                        {[userId |-> uid, tenantId |-> req.tenantId,
                          role |-> RegisterRole(req.tenantId), createdAt |-> now]}
                 /\ nextId' = [nextId EXCEPT !.user = uid]
                 /\ call' = [call EXCEPT ![p] =
                        InFlight("register", "tokens", req,
                                 [NoLoc EXCEPT !.userId = uid, !.tenantId = req.tenantId])]
                 /\ UNCHANGED tenants
       ELSE /\ uid <= MaxUsers
            /\ tid <= MaxTenants
            /\ users' = users \cup
                   {[id |-> uid, email |-> req.email,
                     password |-> BcryptHash(req.password)]}
            /\ tenants' = tenants \cup {tid}
            /\ memberships' = memberships \cup
                   {[userId |-> uid, tenantId |-> tid,
                     role |-> RegisterRole(req.tenantId), createdAt |-> now]}
            /\ nextId' = [nextId EXCEPT !.user = uid, !.tenant = tid]
            /\ call' = [call EXCEPT ![p] =
                   InFlight("register", "tokens", req,
                            [NoLoc EXCEPT !.userId = uid, !.tenantId = tid])]
    /\ UNCHANGED <<jwtRefreshExpiresIn, invitations, refreshTokens, issued, items, now, ticks, loggedOut>>

\* lines 478-483
RegisterTokens(p) ==
    /\ At(p, "register", "tokens")
    /\ GenerateTokens(p, "register", call[p].req, call[p].loc.userId,
                      call[p].loc.tenantId, "InternalError")
    /\ UNCHANGED <<jwtRefreshExpiresIn, users, tenants, memberships, invitations, items, now, ticks, loggedOut, nextId>>

-----------------------------------------------------------------------------
(* AuthService.login, lines 486-515 *)

\* the first row of tenantUser.findMany({ where: { userId } }): the query has
\* no orderBy, so any of the user's rows may come first.
FirstTenantUser(uid) == TenantUsersOf(uid)

LoginRejectsUnknownOnly(user, password) == user = {}
LoginRejects(user, password) ==
    \/ user = {}
    \/ \A u \in user : ~BcryptCompare(password, u.password)

Login(p, email, password) ==
    /\ CanStart(p)
    /\ LET req == Req(email, password, NoId, Garbage, NoId)
           user == FindByEmail(email)
       IN
       IF LoginRejects(user, password)
       THEN /\ call' = [call EXCEPT ![p] = Failed("login", req, "InvalidCredentials")]
            /\ UNCHANGED <<refreshTokens, issued>>
       ELSE \E u \in user :
            IF TenantUsersOf(u.id) = {}
            THEN /\ call' = [call EXCEPT ![p] = Failed("login", req, "NoTenantAccess")]
                 /\ UNCHANGED <<refreshTokens, issued>>
            ELSE \E m \in FirstTenantUser(u.id) :
                     GenerateTokens(p, "login", req, u.id, m.tenantId, "InternalError")
    /\ UNCHANGED <<jwtRefreshExpiresIn, users, tenants, memberships, invitations, items, now, ticks, loggedOut, nextId>>

-----------------------------------------------------------------------------
(* AuthService.refreshToken, lines 517-544: every throw inside the try,     *)
(* the store's included, is rethrown as AuthInvalidRefreshTokenException.   *)

\* line 538: generateTokens(user.id, payload.tenantId)
RefreshTenantResolved(token) ==
    IF GetTenantUser(token.pl.sub, token.pl.tenantId) # {} THEN token.pl.tenantId ELSE NoId
RefreshTenant(token) == token.pl.tenantId

RefreshAccepts(token) ==
    /\ VerifyRefresh(token)
    /\ \E r \in FindRefreshByToken(token) : RefreshIsValid(r)
    /\ FindById(token.pl.sub) # {}

RefreshToken(p, token) ==
    /\ CanStart(p)
    /\ LET req == Req("", "", NoId, token, NoId) IN
       IF ~RefreshAccepts(token)
       THEN /\ call' = [call EXCEPT ![p] = Failed("refresh", req, "InvalidRefreshToken")]
            /\ UNCHANGED <<refreshTokens, issued>>
       ELSE GenerateTokens(p, "refresh", req, token.pl.sub, RefreshTenant(token),
                           "InvalidRefreshToken")
    /\ UNCHANGED <<jwtRefreshExpiresIn, users, tenants, memberships, invitations, items, now, ticks, loggedOut, nextId>>

-----------------------------------------------------------------------------
(* AuthService.logout + RefreshTokenRepository.revoke *)

\* prisma.refreshToken.update({ where: { token }, data: { revoked: true } });
\* it throws when no row matches, which leaves the table as it is.
RevokeNothing(token) == refreshTokens
RevokeAllOfUser(token) ==
    {IF \E s \in refreshTokens : s.token = HashToken(token) /\ s.userId = r.userId
     THEN [r EXCEPT !.revoked = TRUE] ELSE r : r \in refreshTokens}
Revoke(token) ==
    {IF r.token = HashToken(token) THEN [r EXCEPT !.revoked = TRUE] ELSE r :
        r \in refreshTokens}

\* what logout answers when revoke threw (the catch block) 
LogoutOnThrowRethrow(op, req) == Failed(op, req, "InternalError")
LogoutOnThrow(op, req) == Succeeded(op, req, NoPayload, NoId)

Logout(p, token) ==
    /\ CanStart(p)
    /\ LET req == Req("", "", NoId, token, NoId) IN
       IF FindRefreshByToken(token) = {}
       THEN /\ call' = [call EXCEPT ![p] = LogoutOnThrow("logout", req)]
            /\ refreshTokens' = RevokeNothing(token)
       ELSE /\ refreshTokens' = Revoke(token)
            /\ call' = [call EXCEPT ![p] = Succeeded("logout", req, NoPayload, NoId)]
    /\ loggedOut' = IF FindRefreshByToken(token) = {} THEN loggedOut
                    ELSE loggedOut \cup {[token |-> token, revoked |-> TRUE]}
    /\ UNCHANGED <<jwtRefreshExpiresIn, users, tenants, memberships, invitations, issued, items, now, ticks, nextId>>

\* the store is unreachable while revoke runs: the update throws, nothing is
\* written, and the catch block answers.
LogoutStoreFailure(p, token) ==
    /\ CanStart(p)
    /\ call' = [call EXCEPT ![p] =
                    LogoutOnThrow("logoutStoreFailure", Req("", "", NoId, token, NoId))]
    /\ loggedOut' = IF FindRefreshByToken(token) = {} THEN loggedOut
                    ELSE loggedOut \cup {[token |-> token, revoked |-> FALSE]}
    /\ UNCHANGED <<jwtRefreshExpiresIn, stores, issued, now, ticks, nextId>>

\* the stored tokens logout was called with; those whose row a logout revoked
LogoutCalledWith == {l.token : l \in loggedOut}
RevokedByLogout == {l.token : l \in {x \in loggedOut : x.revoked}}

-----------------------------------------------------------------------------
(* Access control: JwtAuthGuard + JwtStrategy.validate *)

Validate(p, token) ==
    /\ CanStart(p)
    /\ LET req == Req("", "", NoId, token, NoId)
           pl == token.pl
       IN
       call' = [call EXCEPT ![p] =
                    IF ~VerifyAccess(token) THEN Failed("validate", req, "Unauthenticated")
                    ELSE IF FindById(pl.sub) = {}
                    THEN Failed("validate", req, "Unauthenticated")
                    ELSE IF ~UserExistsInTenant(pl.sub, pl.tenantId)
                    THEN Failed("validate", req, "Unauthenticated")
                    ELSE Succeeded("validate", req, pl, pl.sub)]
    /\ UNCHANGED <<jwtRefreshExpiresIn, stores, issued, now, ticks, loggedOut, nextId>>

-----------------------------------------------------------------------------
(* TenantRepository.removeUserFromTenant *)

MembershipsWithout(uid, tid) ==
    {m \in memberships : ~(m.userId = uid /\ m.tenantId = tid)}

\* the caller of a member-management route: an OWNER or ADMIN of the tenant
\* who holds a token pair for it
IsTenantAdmin(caller, tid) ==
    /\ \E m \in GetTenantUser(caller, tid) : m.role \in {"OWNER", "ADMIN"}
    /\ \E pl \in issued : pl.sub = caller /\ pl.tenantId = tid

RemoveUserFromTenant(uid, tid) ==
    /\ \E caller \in UserIds : IsTenantAdmin(caller, tid)
    /\ GetTenantUser(uid, tid) # {}
    /\ memberships' = MembershipsWithout(uid, tid)
    /\ UNCHANGED <<jwtRefreshExpiresIn, users, tenants, invitations, refreshTokens, issued, items, now, ticks, loggedOut,
                   nextId, call>>

-----------------------------------------------------------------------------
(* InvitationRepository.create, called for an OWNER or ADMIN of the tenant *)

CreateInvitation(tid, email, role, inviter) ==
    /\ nextId.invitation < MaxInvitations
    /\ tid \in tenants
    /\ IsTenantAdmin(inviter, tid)
    /\ LET id == nextId.invitation + 1 IN
       /\ invitations' = invitations \cup
              {[id |-> id, token |-> id, email |-> email, role |-> role,
                expiresAt |-> now + InvitationTTL, accepted |-> FALSE,
                tenantId |-> tid, invitedBy |-> inviter]}
       /\ nextId' = [nextId EXCEPT !.invitation = id]
    /\ UNCHANGED <<jwtRefreshExpiresIn, users, tenants, memberships, refreshTokens, issued, items, now, ticks, loggedOut, call>>

\* InvitationRepository.delete, called for an OWNER or ADMIN of the tenant
DeleteInvitation(id) ==
    /\ \E i \in invitations :
           /\ i.id = id
           /\ \E caller \in UserIds : IsTenantAdmin(caller, i.tenantId)
    /\ invitations' = {i \in invitations : i.id # id}
    /\ UNCHANGED <<jwtRefreshExpiresIn, users, tenants, memberships, refreshTokens, issued, items, now, ticks,
                   loggedOut, nextId, call>>

-----------------------------------------------------------------------------
(* Role-gated routes: JwtAuthGuard, TenantRoleGuard and @Roles(...) *)

GatedOps == {"createInvitation", "updateUserRole", "deleteTenant"}

\* the roles a route declares with @Roles(...)
RequiredRoles(op) ==
    IF op = "deleteTenant" THEN {"OWNER"} ELSE {"OWNER", "ADMIN"}

\* JwtAuthGuard: the token verifies, its user exists and is a member of its
\* tenant
Authenticated(token) ==
    /\ VerifyAccess(token)
    /\ FindById(token.pl.sub) # {}
    /\ UserExistsInTenant(token.pl.sub, token.pl.tenantId)

\* the roles of the caller's row in the token's tenant, as currently stored
ResolvedRoles(token) ==
    {m.role : m \in GetTenantUser(token.pl.sub, token.pl.tenantId)}

\* the answer of the two guards to a request for a route requiring `required`
TenantRoleGuard(token, required) ==
    IF ~Authenticated(token) THEN "Unauthenticated"
    ELSE IF ResolvedRoles(token) \cap required = {} THEN "Forbidden"
    ELSE "ok"

GatedReq(token) == Req("", "", token.pl.tenantId, token, token.pl.sub)

\* POST /tenants/:tenantId/invitations, @Roles(OWNER, ADMIN)
InviteMember(p, token, email, role) ==
    LET verdict == TenantRoleGuard(token, RequiredRoles("createInvitation"))
        id == nextId.invitation + 1
    IN
    /\ CanStart(p)
    /\ verdict = "ok" => nextId.invitation < MaxInvitations
    /\ IF verdict # "ok"
       THEN /\ call' = [call EXCEPT ![p] =
                           Failed("createInvitation", GatedReq(token), verdict)]
            /\ UNCHANGED <<invitations, nextId>>
       ELSE /\ invitations' = invitations \cup
                   {[id |-> id, token |-> id, email |-> email, role |-> role,
                     expiresAt |-> now + InvitationTTL, accepted |-> FALSE,
                     tenantId |-> token.pl.tenantId, invitedBy |-> token.pl.sub]}
            /\ nextId' = [nextId EXCEPT !.invitation = id]
            /\ call' = [call EXCEPT ![p] =
                           Succeeded("createInvitation", GatedReq(token), NoPayload,
                                     token.pl.sub)]
    /\ UNCHANGED <<jwtRefreshExpiresIn, users, tenants, memberships, refreshTokens, items, issued, now, ticks,
                   loggedOut>>

\* the member-role change, @Roles(OWNER, ADMIN), with
\* TenantRepository.updateUserRole: prisma update throws when no row matches
UpdateUserRole(p, token, uid, role) ==
    LET verdict == TenantRoleGuard(token, RequiredRoles("updateUserRole"))
        tid == token.pl.tenantId
    IN
    /\ CanStart(p)
    /\ IF verdict # "ok"
       THEN /\ call' = [call EXCEPT ![p] =
                           Failed("updateUserRole", GatedReq(token), verdict)]
            /\ UNCHANGED memberships
       ELSE IF GetTenantUser(uid, tid) = {}
       THEN /\ call' = [call EXCEPT ![p] =
                           Failed("updateUserRole", GatedReq(token), "InternalError")]
            /\ UNCHANGED memberships
       ELSE /\ memberships' =
                   {IF m.userId = uid /\ m.tenantId = tid
                    THEN [m EXCEPT !.role = role] ELSE m : m \in memberships}
            /\ call' = [call EXCEPT ![p] =
                           Succeeded("updateUserRole", GatedReq(token), NoPayload,
                                     token.pl.sub)]
    /\ UNCHANGED <<jwtRefreshExpiresIn, users, tenants, invitations, refreshTokens, items, issued, now, ticks,
                   loggedOut, nextId>>

\* onDelete: Cascade on the tenant relation of tenant_users, invitations and
\* items: the rows of a deleted tenant go with it
TenantCascadeNone(rows, tid) == rows
TenantCascade(rows, tid) == {r \in rows : r.tenantId # tid}

\* DELETE /tenants/:tenantId, @Roles(OWNER), with TenantRepository.delete
DeleteTenant(p, token) ==
    LET verdict == TenantRoleGuard(token, RequiredRoles("deleteTenant"))
        tid == token.pl.tenantId
    IN
    /\ CanStart(p)
    /\ IF verdict # "ok"
       THEN /\ call' = [call EXCEPT ![p] =
                           Failed("deleteTenant", GatedReq(token), verdict)]
            /\ UNCHANGED <<tenants, memberships, invitations, items>>
       ELSE /\ tenants' = tenants \ {tid}
            /\ memberships' = TenantCascade(memberships, tid)
            /\ invitations' = TenantCascade(invitations, tid)
            /\ items' = TenantCascade(items, tid)
            /\ call' = [call EXCEPT ![p] =
                           Succeeded("deleteTenant", GatedReq(token), NoPayload,
                                     token.pl.sub)]
    /\ UNCHANGED <<jwtRefreshExpiresIn, users, refreshTokens, issued, now, ticks, loggedOut, nextId>>

-----------------------------------------------------------------------------
(* Items: ItemRepository, ItemEntity and the ItemsService routes *)

ItemOps == {"createItem", "listItems", "findOneItem", "updateItem", "deleteItem"}

\* an item request: the bearer token, the :id parameter and the dto's name
ItemReq(token, id, name) ==
    [itemId |-> id, name |-> name] @@ Req("", "", token.pl.tenantId, token, token.pl.sub)

\* a response carrying item rows
ItemsReturned(op, req, rows) ==
    [op |-> op, pc |-> "done", req |-> req, loc |-> NoLoc,
     res |-> [kind |-> "ok", error |-> "none", tokens |-> NoPayload, userId |-> NoId,
              items |-> rows]]

\* ItemRepository.findById: findUnique({ where: { id } })
FindItemById(id) == {i \in items : i.id = id}
\* ItemRepository.findAll: findMany({ where: { tenantId } })
FindAllItemsOfAnyTenant(tid) == items
FindAllItems(tid) == {i \in items : i.tenantId = tid}
\* ItemEntity.belongsToTenant
BelongsToTenantAlways(item, tid) == TRUE
BelongsToTenant(item, tid) == item.tenantId = tid

\* ItemsService.findOne: the error it throws for (id, tenantId), or "none"
FindOneError(id, tid) ==
    IF FindItemById(id) = {} THEN "ItemNotFound"
    ELSE IF \E i \in FindItemById(id) : ~BelongsToTenant(i, tid) THEN "ItemForbidden"
    ELSE "none"

\* ItemsService.create: validateTenantExists, then ItemRepository.create
CreateItem(p, token, name) ==
    LET req == ItemReq(token, NoId, name)
        tid == token.pl.tenantId
        id == nextId.item + 1
    IN
    /\ CanStart(p)
    /\ (Authenticated(token) /\ tid \in tenants) => nextId.item < MaxItems
    /\ IF ~Authenticated(token)
       THEN /\ call' = [call EXCEPT ![p] = Failed("createItem", req, "Unauthenticated")]
            /\ UNCHANGED <<items, nextId>>
       ELSE IF tid \notin tenants
       THEN /\ call' = [call EXCEPT ![p] = Failed("createItem", req, "TenantNotFound")]
            /\ UNCHANGED <<items, nextId>>
       ELSE /\ items' = items \cup {[id |-> id, tenantId |-> tid, name |-> name]}
            /\ nextId' = [nextId EXCEPT !.item = id]
            /\ call' = [call EXCEPT ![p] =
                   ItemsReturned("createItem", req,
                                 {[id |-> id, tenantId |-> tid, name |-> name]})]
    /\ UNCHANGED <<jwtRefreshExpiresIn, users, tenants, memberships, invitations, refreshTokens, issued, now,
                   ticks, loggedOut>>

\* ItemsService.findAll
ListItems(p, token) ==
    LET req == ItemReq(token, NoId, "") IN
    /\ CanStart(p)
    /\ call' = [call EXCEPT ![p] =
           IF ~Authenticated(token) THEN Failed("listItems", req, "Unauthenticated")
           ELSE ItemsReturned("listItems", req, FindAllItems(token.pl.tenantId))]
    /\ UNCHANGED <<jwtRefreshExpiresIn, stores, issued, now, ticks, loggedOut, nextId>>

\* ItemsService.findOne
FindOneItem(p, token, id) ==
    LET req == ItemReq(token, id, "") IN
    /\ CanStart(p)
    /\ call' = [call EXCEPT ![p] =
           IF ~Authenticated(token) THEN Failed("findOneItem", req, "Unauthenticated")
           ELSE IF FindOneError(id, token.pl.tenantId) # "none"
           THEN Failed("findOneItem", req, FindOneError(id, token.pl.tenantId))
           ELSE ItemsReturned("findOneItem", req, FindItemById(id))]
    /\ UNCHANGED <<jwtRefreshExpiresIn, stores, issued, now, ticks, loggedOut, nextId>>

\* update and remove, first step: the ownership check of findOne
ItemVerify(p, op, token, id, name) ==
    LET req == ItemReq(token, id, name) IN
    /\ CanStart(p)
    /\ call' = [call EXCEPT ![p] =
           IF ~Authenticated(token) THEN Failed(op, req, "Unauthenticated")
           ELSE IF FindOneError(id, token.pl.tenantId) # "none"
           THEN Failed(op, req, FindOneError(id, token.pl.tenantId))
           ELSE InFlight(op, "write", req, NoLoc)]
    /\ UNCHANGED <<jwtRefreshExpiresIn, stores, issued, now, ticks, loggedOut, nextId>>

\* ItemRepository.update: prisma update({ where: { id } }) throws when the row
\* is gone
ItemUpdateWrite(p) ==
    LET req == call[p].req IN
    /\ At(p, "updateItem", "write")
    /\ IF FindItemById(req.itemId) = {}
       THEN /\ call' = [call EXCEPT ![p] = Failed("updateItem", req, "InternalError")]
            /\ UNCHANGED items
       ELSE /\ items' = {IF i.id = req.itemId THEN [i EXCEPT !.name = req.name] ELSE i :
                            i \in items}
            /\ call' = [call EXCEPT ![p] =
                   ItemsReturned("updateItem", req,
                       {[i EXCEPT !.name = req.name] : i \in FindItemById(req.itemId)})]
    /\ UNCHANGED <<jwtRefreshExpiresIn, users, tenants, memberships, invitations, refreshTokens, issued, now,
                   ticks, loggedOut, nextId>>

\* ItemRepository.delete: prisma delete({ where: { id } }) throws when the row
\* is gone
ItemDeleteWrite(p) ==
    LET req == call[p].req IN
    /\ At(p, "deleteItem", "write")
    /\ IF FindItemById(req.itemId) = {}
       THEN /\ call' = [call EXCEPT ![p] = Failed("deleteItem", req, "InternalError")]
            /\ UNCHANGED items
       ELSE /\ items' = items \ FindItemById(req.itemId)
            /\ call' = [call EXCEPT ![p] = ItemsReturned("deleteItem", req, {})]
    /\ UNCHANGED <<jwtRefreshExpiresIn, users, tenants, memberships, invitations, refreshTokens, issued, now,
                   ticks, loggedOut, nextId>>

-----------------------------------------------------------------------------
(* AuthService.acceptInvitation, lines 556-618 *)

\* lines 563-569: the checks on the invitation row read
InvitationCheckExpiryOnly(inv) ==
    IF InvitationIsExpired(inv) THEN "InvitationExpired" ELSE "none"
InvitationCheckExpiryFirst(inv) ==
    IF InvitationIsExpired(inv) THEN "InvitationExpired"
    ELSE IF inv.accepted THEN "InvitationAlreadyAccepted"
    ELSE "none"
InvitationCheck(inv) ==
    IF inv.accepted THEN "InvitationAlreadyAccepted"
    ELSE IF InvitationIsExpired(inv) THEN "InvitationExpired"
    ELSE "none"

\* lines 557-569: the invitation lookup and the checks
AcceptFind(p, token, password) ==
    /\ CanStart(p)
    /\ LET req == [NoReq EXCEPT !.invToken = token, !.password = password]
           found == FindInvitationByToken(token)
       IN
       IF found = {}
       THEN call' = [call EXCEPT ![p] = Failed("accept", req, "InvitationNotFound")]
       ELSE \E inv \in found :
            call' = [call EXCEPT ![p] =
                IF InvitationCheck(inv) # "none"
                THEN Failed("accept", req, InvitationCheck(inv))
                ELSE InFlight("accept", "findUser", req,
                              [NoLoc EXCEPT !.invId = inv.id, !.tenantId = inv.tenantId,
                                            !.role = inv.role, !.email = inv.email])]
    /\ UNCHANGED <<jwtRefreshExpiresIn, stores, issued, now, ticks, loggedOut, nextId>>

\* lines 571-576: the user lookup by the invitation's email
AcceptFindUser(p) ==
    /\ At(p, "accept", "findUser")
    /\ LET req == call[p].req
           loc == call[p].loc
           user == FindByEmail(loc.email)
       IN
       IF user = {}
       THEN call' = [call EXCEPT ![p] =
                IF req.password = ""
                THEN Failed("accept", req, "PasswordRequired")
                ELSE InFlight("accept", "createUser", req, loc)]
       ELSE \E u \in user :
            call' = [call EXCEPT ![p] =
                InFlight("accept", "tx", req, [loc EXCEPT !.userId = u.id])]
    /\ UNCHANGED <<jwtRefreshExpiresIn, stores, issued, now, ticks, loggedOut, nextId>>

\* lines 578-585: prisma.user.create, outside any transaction
AcceptCreateUser(p) ==
    /\ At(p, "accept", "createUser")
    /\ LET req == call[p].req
           loc == call[p].loc
           uid == nextId.user + 1
       IN
       IF UserInsertRefused(loc.email)
       THEN /\ call' = [call EXCEPT ![p] = Failed("accept", req, "InternalError")]
            /\ UNCHANGED <<users, nextId>>
       ELSE /\ uid <= MaxUsers
            /\ users' = users \cup
                   {[id |-> uid, email |-> loc.email,
                     password |-> BcryptHash(req.password)]}
            /\ nextId' = [nextId EXCEPT !.user = uid]
            /\ call' = [call EXCEPT ![p] =
                   InFlight("accept", "tx", req, [loc EXCEPT !.userId = uid])]
    /\ UNCHANGED <<jwtRefreshExpiresIn, tenants, memberships, invitations, refreshTokens, issued, items, now, ticks, loggedOut>>

\* prisma.tenantUser.upsert on the key (userId, tenantId)
UpsertTenantUserAsMember(uid, tid, role) ==
    IF GetTenantUser(uid, tid) # {} THEN memberships
    ELSE memberships \cup
             {[userId |-> uid, tenantId |-> tid, role |-> "MEMBER", createdAt |-> now]}
UpsertTenantUserInsert(uid, tid, role) ==
    memberships \cup {[userId |-> uid, tenantId |-> tid, role |-> role, createdAt |-> now]}
UpsertTenantUser(uid, tid, role) ==
    IF GetTenantUser(uid, tid) # {}
    THEN {IF m.userId = uid /\ m.tenantId = tid THEN [m EXCEPT !.role = role] ELSE m :
             m \in memberships}
    ELSE memberships \cup
             {[userId |-> uid, tenantId |-> tid, role |-> role, createdAt |-> now]}

\* prisma.invitation.update({ where: { id }, data: { accepted: true } })
MarkAsAcceptedSkipped(id) == invitations
MarkAsAcceptedToggled(id) ==
    {IF i.id = id THEN [i EXCEPT !.accepted = ~i.accepted] ELSE i : i \in invitations}
MarkAsAccepted(id) ==
    {IF i.id = id THEN [i EXCEPT !.accepted = TRUE] ELSE i : i \in invitations}

\* whether the transaction's writes are refused: by a foreign key of the
\* upsert, or by invitation.update finding no row of that id. The update is
\* unconditional: an invitation that is already accepted is written again.
AcceptTxRefused(loc) ==
    \/ FindById(loc.userId) = {}
    \/ loc.tenantId \notin tenants
    \/ \A i \in invitations : i.id # loc.invId

\* lines 588-609: $transaction([tenantUser.upsert, invitation.update])
AcceptTx(p) ==
    /\ At(p, "accept", "tx")
    /\ LET req == call[p].req
           loc == call[p].loc
       IN
       IF AcceptTxRefused(loc)
       THEN /\ call' = [call EXCEPT ![p] = Failed("accept", req, "InternalError")]
            /\ UNCHANGED <<memberships, invitations>>
       ELSE /\ memberships' = UpsertTenantUser(loc.userId, loc.tenantId, loc.role)
            /\ invitations' = MarkAsAccepted(loc.invId)
            /\ call' = [call EXCEPT ![p] = InFlight("accept", "tokens", req, loc)]
    /\ UNCHANGED <<jwtRefreshExpiresIn, users, tenants, refreshTokens, issued, items, now, ticks, loggedOut, nextId>>

\* lines 611-617
AcceptTokens(p) ==
    /\ At(p, "accept", "tokens")
    /\ GenerateTokens(p, "accept", call[p].req, call[p].loc.userId,
                      call[p].loc.tenantId, "InternalError")
    /\ UNCHANGED <<jwtRefreshExpiresIn, users, tenants, memberships, invitations, items, now, ticks, loggedOut, nextId>>

-----------------------------------------------------------------------------
(* UsersService.update, lines 60-77, with UserRepository.update *)

UpdateFind(p, id, email) ==
    /\ CanStart(p)
    /\ LET req == Req(email, "", NoId, Garbage, id)
           user == FindById(id)
       IN
       IF user = {}
       THEN call' = [call EXCEPT ![p] = Failed("update", req, "UserNotFound")]
       ELSE \E u \in user :
            call' = [call EXCEPT ![p] =
                IF email # "" /\ email # u.email
                THEN InFlight("update", "checkEmail", req, NoLoc)
                ELSE InFlight("update", "write", req, NoLoc)]
    /\ UNCHANGED <<jwtRefreshExpiresIn, stores, issued, now, ticks, loggedOut, nextId>>

UpdateCheckEmail(p) ==
    /\ At(p, "update", "checkEmail")
    /\ LET req == call[p].req IN
       call' = [call EXCEPT ![p] =
           IF FindByEmail(req.email) # {}
           THEN Failed("update", req, "UserEmailAlreadyExists")
           ELSE InFlight("update", "write", req, NoLoc)]
    /\ UNCHANGED <<jwtRefreshExpiresIn, stores, issued, now, ticks, loggedOut, nextId>>

\* users.email is @unique: the update is refused when another row holds it.
UserUpdateRefusedNever(id, email) == FindById(id) = {}
UserUpdateRefused(id, email) ==
    \/ FindById(id) = {}
    \/ email # "" /\ \E u \in users : u.id # id /\ u.email = email

UpdateWrite(p) ==
    /\ At(p, "update", "write")
    /\ LET req == call[p].req IN
       IF UserUpdateRefused(req.userId, req.email)
       THEN /\ call' = [call EXCEPT ![p] = Failed("update", req, "InternalError")]
            /\ UNCHANGED users
       ELSE /\ users' = {IF u.id = req.userId /\ req.email # ""
                         THEN [u EXCEPT !.email = req.email] ELSE u : u \in users}
            /\ call' = [call EXCEPT ![p] = Succeeded("update", req, NoPayload, req.userId)]
    /\ UNCHANGED <<jwtRefreshExpiresIn, tenants, memberships, invitations, refreshTokens, issued, items, now, ticks, loggedOut,
                   nextId>>

-----------------------------------------------------------------------------
(* UsersService.changePassword, lines 91-112 *)

ChangePasswordReq(uid, current, new) ==
    [newPassword |-> new] @@ Req("", current, NoId, Garbage, uid)

\* lines 95-105: findByIdWithPassword and bcrypt.compare
ChangePasswordCheck(p, uid, current, new) ==
    LET req == ChangePasswordReq(uid, current, new) IN
    /\ CanStart(p)
    /\ call' = [call EXCEPT ![p] =
           IF FindById(uid) = {} THEN Failed("changePassword", req, "UserNotFound")
           ELSE IF \E u \in FindById(uid) : ~BcryptCompare(current, u.password)
           THEN Failed("changePassword", req, "UserIncorrectPassword")
           ELSE InFlight("changePassword", "write", req, NoLoc)]
    /\ UNCHANGED <<jwtRefreshExpiresIn, stores, issued, now, ticks, loggedOut, nextId>>

\* lines 107-111: bcrypt.hash and UserRepository.updatePassword, a prisma
\* update that throws when the row is gone
ChangePasswordWrite(p) ==
    LET req == call[p].req IN
    /\ At(p, "changePassword", "write")
    /\ IF FindById(req.userId) = {}
       THEN /\ call' = [call EXCEPT ![p] = Failed("changePassword", req, "InternalError")]
            /\ UNCHANGED users
       ELSE /\ users' = {IF u.id = req.userId
                         THEN [u EXCEPT !.password = BcryptHash(req.newPassword)]
                         ELSE u : u \in users}
            /\ call' = [call EXCEPT ![p] =
                   Succeeded("changePassword", req, NoPayload, req.userId)]
    /\ UNCHANGED <<jwtRefreshExpiresIn, tenants, memberships, invitations, refreshTokens, issued,
                   items, now, ticks, loggedOut, nextId>>

-----------------------------------------------------------------------------
(* UsersService.remove and UsersService.switchTenant *)

\* UsersService.remove -> UserRepository.delete: prisma.user.delete, with the
\* schema's onDelete: Cascade on TenantUser.user, RefreshToken.user and
\* Invitation.inviter.
DeleteUser(uid) ==
    /\ FindById(uid) # {}
    /\ users' = users \ FindById(uid)
    /\ memberships' = {m \in memberships : m.userId # uid}
    /\ refreshTokens' = {r \in refreshTokens : r.userId # uid}
    /\ invitations' = {i \in invitations : i.invitedBy # uid}
    /\ UNCHANGED <<jwtRefreshExpiresIn, tenants, issued, items, now, ticks, loggedOut, nextId, call>>

\* UserRepository.hasTenantAccess
HasTenantAccessAlways(uid, tid) == TRUE
HasTenantAccess(uid, tid) == GetTenantUser(uid, tid) # {}

\* UsersService.switchTenant, lines 118-126: one read of the memberships, then
\* `return { tenantId }`; no token is signed and nothing is written.
SwitchTenant(p, uid, tid) ==
    /\ CanStart(p)
    /\ LET req == Req("", "", tid, Garbage, uid) IN
       call' = [call EXCEPT ![p] =
                    IF ~HasTenantAccess(uid, tid)
                    THEN Failed("switchTenant", req, "NoTenantAccess")
                    ELSE Succeeded("switchTenant", req, NoPayload, uid)]
    /\ UNCHANGED <<jwtRefreshExpiresIn, stores, issued, now, ticks, loggedOut, nextId>>

-----------------------------------------------------------------------------
(* RefreshTokenRepository.deleteExpired *)

DeleteExpiredInclusive ==
    /\ \E r \in refreshTokens : r.expiresAt <= now
    /\ refreshTokens' = {r \in refreshTokens : ~(r.expiresAt <= now)}
    /\ UNCHANGED <<jwtRefreshExpiresIn, users, tenants, memberships, invitations, issued, items, now, ticks, loggedOut,
                   nextId, call>>
DeleteExpired ==
    /\ \E r \in refreshTokens : r.expiresAt < now
    /\ refreshTokens' = {r \in refreshTokens : ~(r.expiresAt < now)}
    /\ UNCHANGED <<jwtRefreshExpiresIn, users, tenants, memberships, invitations, issued, items, now, ticks, loggedOut,
                   nextId, call>>

-----------------------------------------------------------------------------
(* The clock *)

Tick(d) ==
    /\ ticks < MaxTicks
    /\ now' = now + d
    /\ ticks' = ticks + 1
    /\ UNCHANGED <<jwtRefreshExpiresIn, stores, issued, nextId, call, loggedOut>>

-----------------------------------------------------------------------------
(* Inputs *)

RegisterPasswords == {"Aa1!aaaa"}
OptionalPasswords == {"", "Aa1!aaaa"}
OptionalEmails == {""} \cup Emails
OptionalTenantIds == {NoId} \cup TenantIds
InvitationTokens == 1..(MaxInvitations + 1)

Register(p) ==
    \/ \E e \in Emails, pw \in RegisterPasswords, t \in OptionalTenantIds :
           RegisterLookup(p, e, pw, t)
    \/ RegisterTx(p)
    \/ RegisterTokens(p)

AcceptInvitation(p) ==
    \/ \E t \in InvitationTokens, pw \in OptionalPasswords : AcceptFind(p, t, pw)
    \/ AcceptFindUser(p)
    \/ AcceptCreateUser(p)
    \/ AcceptTx(p)
    \/ AcceptTokens(p)

Update(p) ==
    \/ \E u \in UserIds, e \in OptionalEmails : UpdateFind(p, u, e)
    \/ UpdateCheckEmail(p)
    \/ UpdateWrite(p)

DoLogin(p) == \E e \in Emails, pw \in Passwords : Login(p, e, pw)
DoRefresh(p) == \E t \in PresentableTokens : RefreshToken(p, t)
DoLogout(p) == \E t \in PresentableTokens : Logout(p, t)
DoLogoutStoreFailure(p) == \E t \in PresentableTokens : LogoutStoreFailure(p, t)
DoValidate(p) == \E t \in PresentableTokens : Validate(p, t)

DoRemoveUserFromTenant == \E u \in UserIds, t \in TenantIds : RemoveUserFromTenant(u, t)
DoCreateInvitation ==
    \E t \in TenantIds, e \in Emails, r \in Roles, u \in UserIds :
        CreateInvitation(t, e, r, u)

DoSwitchTenant(p) == \E u \in UserIds, t \in TenantIds : SwitchTenant(p, u, t)

DoDeleteUser == \E u \in UserIds : DeleteUser(u)

DoDeleteInvitation == \E i \in 1..MaxInvitations : DeleteInvitation(i)

AccessTokens == {AccessTokenOf(pl) : pl \in issued} \cup {Garbage}

DoInviteMember(p) ==
    \E t \in AccessTokens, e \in Emails, r \in Roles : InviteMember(p, t, e, r)
DoUpdateUserRole(p) ==
    \E t \in AccessTokens, u \in UserIds, r \in Roles : UpdateUserRole(p, t, u, r)
DoDeleteTenant(p) == \E t \in AccessTokens : DeleteTenant(p, t)

UpdateItem(p) ==
    \/ \E t \in AccessTokens, i \in ItemIds, n \in ItemNames :
           ItemVerify(p, "updateItem", t, i, n)
    \/ ItemUpdateWrite(p)
DeleteItem(p) ==
    \/ \E t \in AccessTokens, i \in ItemIds : ItemVerify(p, "deleteItem", t, i, "")
    \/ ItemDeleteWrite(p)
DoCreateItem(p) == \E t \in AccessTokens, n \in ItemNames : CreateItem(p, t, n)
DoListItems(p) == \E t \in AccessTokens : ListItems(p, t)
DoFindOneItem(p) == \E t \in AccessTokens, i \in ItemIds : FindOneItem(p, t, i)

ChangePassword(p) ==
    \/ \E u \in UserIds, c \in Passwords, n \in Passwords : ChangePasswordCheck(p, u, c, n)
    \/ ChangePasswordWrite(p)
Clock == \E d \in TickSteps : Tick(d)

-----------------------------------------------------------------------------
(* Spec: the life cycle of the token pairs, one request at a time *)

Next ==
    \/ \E p \in SeqProcs : Register(p)
    \/ \E p \in SeqProcs : DoLogin(p)
    \/ \E p \in SeqProcs : DoRefresh(p)
    \/ \E p \in SeqProcs : DoLogout(p)
    \/ DeleteExpired
    \/ Clock

Spec == Init /\ [][Next]_vars

(* SpecAccess: the access check against membership removal *)

NextAccess ==
    \/ \E p \in SeqProcs : Register(p)
    \/ \E p \in SeqProcs : DoLogin(p)
    \/ \E p \in SeqProcs : DoRefresh(p)
    \/ \E p \in SeqProcs : DoValidate(p)
    \/ DoRemoveUserFromTenant
    \/ Clock

SpecAccess == Init /\ [][NextAccess]_vars

(* SpecFaults: logout against a store that may be unreachable *)

NextFaults ==
    \/ \E p \in SeqProcs : Register(p)
    \/ \E p \in SeqProcs : DoLogin(p)
    \/ \E p \in SeqProcs : DoRefresh(p)
    \/ \E p \in SeqProcs : DoLogout(p)
    \/ \E p \in SeqProcs : DoLogoutStoreFailure(p)
    \/ DeleteExpired
    \/ Clock

SpecFaults == Init /\ [][NextFaults]_vars

(* SpecIssue: every operation that issues a token pair, one request at a time *)

NextIssue ==
    \/ \E p \in SeqProcs : Register(p)
    \/ \E p \in SeqProcs : AcceptInvitation(p)
    \/ \E p \in SeqProcs : DoLogin(p)
    \/ \E p \in SeqProcs : DoRefresh(p)
    \/ DoCreateInvitation
    \/ Tick(1)

SpecIssue == Init /\ [][NextIssue]_vars

(* SpecRace: two concurrent requests on the handlers that read the users    *)
(* table and then write it                                                  *)

NextRace ==
    \/ \E p \in Procs : Register(p)
    \/ \E p \in Procs : AcceptInvitation(p)
    \/ \E p \in Procs : Update(p)
    \/ DoCreateInvitation

SpecRace == Init /\ [][NextRace]_vars

(* SpecAccept: two concurrent acceptInvitation requests, starting from the  *)
(* state in which a@x.com has registered its own workspace                  *)

InitRegistered ==
    /\ now = 0
    /\ ticks = 0
    /\ loggedOut = {}
    /\ users = {[id |-> 1, email |-> "a@x.com", password |-> BcryptHash("Bb2?bbbb")]}
    /\ tenants = {1}
    /\ memberships = {[userId |-> 1, tenantId |-> 1, role |-> "OWNER", createdAt |-> 0]}
    /\ invitations = {}
    /\ items = {}
    /\ jwtRefreshExpiresIn = ""
    /\ refreshTokens = {RefreshRow(1, RefreshTokenOf(Payload(1, 1, 0)))}
    /\ issued = {Payload(1, 1, 0)}
    /\ nextId = [user |-> 1, tenant |-> 1, invitation |-> 0, item |-> 0]
    /\ call = [p \in Procs |->
                  IF p = 1
                  THEN Succeeded("register", Req("a@x.com", "Bb2?bbbb", NoId, Garbage, NoId),
                                 Payload(1, 1, 0), 1)
                  ELSE Idle]

NextAccept ==
    \/ \E p \in Procs : AcceptInvitation(p)
    \/ DoCreateInvitation
    \/ DoDeleteInvitation
    \/ Clock

SpecAccept == InitRegistered /\ [][NextAccept]_vars

(* SpecRefresh: refresh against everything that can invalidate a token *)

NextRefresh ==
    \/ \E p \in SeqProcs : Register(p)
    \/ \E p \in SeqProcs : DoRefresh(p)
    \/ \E p \in SeqProcs : DoLogout(p)
    \/ DoDeleteUser
    \/ DeleteExpired
    \/ Clock

SpecRefresh == Init /\ [][NextRefresh]_vars

(* SpecTenants: users of several tenants. It starts from the state in which *)
(* a@x.com and b@x.com have each registered a workspace at time 0 and the   *)
(* refresh tokens of that time have expired and been purged.                *)

InitTwoWorkspaces ==
    /\ now = 30 * Day + 1
    /\ ticks = 0
    /\ loggedOut = {}
    /\ users = {[id |-> 1, email |-> "a@x.com", password |-> BcryptHash("Aa1!aaaa")],
                [id |-> 2, email |-> "b@x.com", password |-> BcryptHash("Aa1!aaaa")]}
    /\ tenants = {1, 2}
    /\ memberships = {[userId |-> 1, tenantId |-> 1, role |-> "OWNER", createdAt |-> 0],
                      [userId |-> 2, tenantId |-> 2, role |-> "OWNER", createdAt |-> 0]}
    /\ invitations = {}
    /\ refreshTokens = {}
    /\ items = {}
    /\ jwtRefreshExpiresIn = ""
    /\ issued = {Payload(1, 1, 0), Payload(2, 2, 0)}
    /\ nextId = [user |-> 2, tenant |-> 2, invitation |-> 0, item |-> 0]
    /\ call = [p \in Procs |-> Idle]

\* acceptInvitation where every email of the model is a user's: the handler's
\* `if (!user)` branch (lines 573-586) is never entered.
AcceptInvitationOfUser(p) ==
    \/ \E t \in InvitationTokens, pw \in OptionalPasswords : AcceptFind(p, t, pw)
    \/ AcceptFindUser(p)
    \/ AcceptTx(p)
    \/ AcceptTokens(p)

NextTenants ==
    \/ \E p \in SeqProcs : AcceptInvitationOfUser(p)
    \/ \E p \in SeqProcs : DoLogin(p)
    \/ \E p \in SeqProcs : DoSwitchTenant(p)
    \/ DoCreateInvitation
    \/ DoRemoveUserFromTenant
    \/ Tick(1)

SpecTenants == InitTwoWorkspaces /\ [][NextTenants]_vars

(* SpecRoles: the role-gated routes of the two workspaces, with the owners *)
(* logging in and inviting each other                                      *)

NextRoles ==
    \/ \E p \in SeqProcs : AcceptInvitationOfUser(p)
    \/ \E p \in SeqProcs : DoLogin(p)
    \/ \E p \in SeqProcs : DoInviteMember(p)
    \/ \E p \in SeqProcs : DoUpdateUserRole(p)
    \/ \E p \in SeqProcs : DoDeleteTenant(p)

SpecRoles == InitTwoWorkspaces /\ [][NextRoles]_vars

(* SpecItems: the item routes called by the members of the two workspaces, *)
(* with deletions running beside the other requests                       *)

NextItems ==
    \/ \E p \in SeqProcs : DoLogin(p)
    \/ \E p \in SeqProcs : DoCreateItem(p)
    \/ \E p \in SeqProcs : DoListItems(p)
    \/ \E p \in SeqProcs : DoFindOneItem(p)
    \/ \E p \in SeqProcs : UpdateItem(p)
    \/ \E p \in Procs : DeleteItem(p)

SpecItems == InitTwoWorkspaces /\ [][NextItems]_vars

(* SpecIntegrity: rows being created while tenants and users are deleted. *)
(* Slot 2 carries the deletions and the item route, so that they fall     *)
(* between the store accesses of a register or acceptInvitation of slot 1 *)

NextIntegrity ==
    \/ \E p \in SeqProcs : Register(p)
    \/ \E p \in SeqProcs : AcceptInvitation(p)
    \/ DoCreateInvitation
    \/ \E p \in Procs \ SeqProcs : DoCreateItem(p)
    \/ \E p \in Procs \ SeqProcs : DoDeleteTenant(p)
    \/ DoDeleteUser

SpecIntegrity == InitRegistered /\ [][NextIntegrity]_vars

(* SpecExpiry: the token life cycle under each configured refresh lifetime *)

RefreshLifetimes == {"", "7d", "30d", "60d"}

InitConfigured ==
    /\ users = {}
    /\ tenants = {}
    /\ memberships = {}
    /\ invitations = {}
    /\ refreshTokens = {}
    /\ items = {}
    /\ jwtRefreshExpiresIn \in RefreshLifetimes
    /\ issued = {}
    /\ now = 0
    /\ ticks = 0
    /\ loggedOut = {}
    /\ nextId = [user |-> 0, tenant |-> 0, invitation |-> 0, item |-> 0]
    /\ call = [p \in Procs |-> Idle]

NextExpiry ==
    \/ \E p \in SeqProcs : Register(p)
    \/ \E p \in SeqProcs : DoLogin(p)
    \/ \E p \in SeqProcs : DoRefresh(p)
    \/ DeleteExpired
    \/ Clock

SpecExpiry == InitConfigured /\ [][NextExpiry]_vars

(* SpecSession: access tokens presented after logout *)

NextSession ==
    \/ \E p \in SeqProcs : Register(p)
    \/ \E p \in SeqProcs : DoLogin(p)
    \/ \E p \in SeqProcs : DoLogout(p)
    \/ \E p \in SeqProcs : DoValidate(p)
    \/ DoRemoveUserFromTenant
    \/ Clock

SpecSession == Init /\ [][NextSession]_vars
(* SpecPassword: password changes beside the token life cycle *)

NextPassword ==
    \/ \E p \in SeqProcs : Register(p)
    \/ \E p \in SeqProcs : DoLogin(p)
    \/ \E p \in SeqProcs : DoRefresh(p)
    \/ \E p \in Procs \ SeqProcs : ChangePassword(p)
    \/ Tick(1)

SpecPassword == Init /\ [][NextPassword]_vars
-----------------------------------------------------------------------------
(* Properties *)

\* slot p has just received the response of a call of `op`
Answers(p, op) == call'[p] # call[p] /\ call'[p].op = op /\ call'[p].pc = "done"
\* slot p has just started a call of `op` (its first store access included)
Starts(p, op) == CanStart(p) /\ call'[p] # call[p] /\ call'[p].op = op

\* C1: an access check of a token that verifies (signature and expiry) for
\* (user, tenant) answers Unauthenticated whenever no membership (user, tenant)
\* exists at the time of the check: from the check that follows the deletion
\* of the membership on, for as long as the membership is absent.
C1_RevocationImmediate ==
    [][\A p \in Procs :
          (/\ Answers(p, "validate")
           /\ VerifyAccess(call'[p].req.token)
           /\ GetTenantUser(call'[p].req.token.pl.sub,
                            call'[p].req.token.pl.tenantId) = {})
          => /\ call'[p].res.kind = "error"
             /\ call'[p].res.error = "Unauthenticated"]_vars

\* a check of a still valid token of an existing user was refused after the
\* user's membership had been removed
C1_Witness ==
    \E p \in Procs :
        /\ Err(p, "validate", "Unauthenticated")
        /\ VerifyAccess(call[p].req.token)
        /\ FindById(call[p].req.token.pl.sub) # {}
        /\ GetTenantUser(call[p].req.token.pl.sub, call[p].req.token.pl.tenantId) = {}

\* C2: of two acceptInvitation calls that both read the same invitation as
\* unaccepted and unexpired, one performs the membership write and succeeds;
\* the other, reaching its transaction when the invitation is already
\* accepted, fails with InvitationAlreadyAccepted, writes nothing and gets no
\* token pair.
C2_ExactlyOneAccepts ==
    [][\A q \in Procs :
          (/\ At(q, "accept", "tx")
           /\ call'[q] # call[q]
           /\ \E inv \in invitations : inv.id = call[q].loc.invId /\ inv.accepted)
          => /\ call'[q].pc = "done"
             /\ call'[q].res.error = "InvitationAlreadyAccepted"
             /\ call'[q].res.tokens = NoPayload
             /\ UNCHANGED <<memberships, invitations>>]_vars

\* C3 as stated: an acceptInvitation that starts when the invitation of its
\* token has been accepted fails with InvitationAlreadyAccepted and changes
\* nothing.
C3_ReplayAlreadyAccepted ==
    [][\A p \in Procs :
          (/\ Starts(p, "accept")
           /\ \E q \in Procs :
                 /\ q # p
                 /\ Ok(q, "accept")
                 /\ call[q].req.invToken = call'[p].req.invToken)
          => /\ call'[p].pc = "done"
             /\ call'[p].res.error = "InvitationAlreadyAccepted"]_vars

\* C3 as amended: such a call fails with InvitationAlreadyAccepted, or with
\* InvitationNotFound when the invitation row has been deleted since; either
\* way it creates or changes no User and no Membership and issues no tokens.
C3_ReplayFails ==
    [][\A p \in Procs :
          (/\ Starts(p, "accept")
           /\ \E q \in Procs :
                 /\ q # p
                 /\ Ok(q, "accept")
                 /\ call[q].req.invToken = call'[p].req.invToken)
          => /\ call'[p].pc = "done"
             /\ call'[p].res.kind = "error"
             /\ call'[p].res.tokens = NoPayload
             /\ call'[p].res.error =
                    IF FindInvitationByToken(call'[p].req.invToken) = {}
                    THEN "InvitationNotFound"
                    ELSE "InvitationAlreadyAccepted"
             /\ UNCHANGED <<users, memberships, refreshTokens, issued>>]_vars

\* one call accepted the invitation, a later one was refused as a replay
C3_Witness ==
    \E p, q \in Procs :
        /\ p # q
        /\ Ok(q, "accept")
        /\ Err(p, "accept", "InvitationAlreadyAccepted")
        /\ call[q].req.invToken = call[p].req.invToken

\* C4: no two users have the same email.
C4_UniqueEmail ==
    \A u1, u2 \in users : u1.email = u2.email => u1 = u2

\* a write to the users table lost the race for an email: it passed the
\* handler's lookup and was refused by the table
C4_Witness ==
    \E p \in Procs :
        /\ call[p].pc = "done"
        /\ call[p].op \in {"register", "update"}
        /\ call[p].res.error = "InternalError"
        /\ \E u \in FindByEmail(call[p].req.email) : u.id # call[p].loc.userId

\* C5: a register call that ends while another user holds its email fails
\* with UserAlreadyExists and changes no store, also when that user was
\* committed between the call's lookup and its insert.
C5_TakenEmailIsConflict ==
    [][\A p \in Procs :
          (/\ Answers(p, "register")
           /\ call[p].pc # "tokens"
           /\ FindByEmail(call'[p].req.email) # {})
          => /\ call'[p].res.error = "UserAlreadyExists"
             /\ UNCHANGED stores]_vars

\* C6: the transaction of a register without tenantId adds one user, one
\* tenant and one membership, that of the new user as OWNER of the new tenant;
\* when the call returns, the tokens carry that tenant's id and the tenant has
\* this one member.
C6_SingleOwner ==
    [][\A p \in Procs :
          /\ (/\ At(p, "register", "tx")
              /\ call[p].req.tenantId = NoId
              /\ call'[p].pc = "tokens")
             => LET uid == call'[p].loc.userId
                    tid == call'[p].loc.tenantId
                IN /\ tenants' = tenants \cup {tid} /\ tid \notin tenants
                   /\ FindById(uid) = {}
                   /\ memberships' = memberships \cup
                          {[userId |-> uid, tenantId |-> tid, role |-> "OWNER",
                            createdAt |-> now]}
                   /\ {m \in memberships' : m.tenantId = tid /\ m.role = "OWNER"}
                          = {m \in memberships' : m.tenantId = tid}
                   /\ Cardinality({m \in memberships' : m.tenantId = tid}) = 1
          /\ (/\ At(p, "register", "tokens")
              /\ call[p].req.tenantId = NoId
              /\ call'[p].res.kind = "ok")
             => LET tid == call[p].loc.tenantId IN
                /\ call'[p].res.tokens.tenantId = tid
                /\ call'[p].res.tokens.sub = call[p].loc.userId
                /\ \A m \in memberships' :
                       m.tenantId = tid
                       => m.userId = call[p].loc.userId /\ m.role = "OWNER"
                /\ Cardinality({m \in memberships' : m.tenantId = tid}) = 1]_vars

\* a register without tenantId has returned: the tenant of its tokens has one
\* member, the new user, as OWNER
C6_Witness ==
    \E p \in Procs :
        /\ Ok(p, "register")
        /\ call[p].req.tenantId = NoId
        /\ {[userId |-> m.userId, role |-> m.role] :
               m \in {x \in memberships : x.tenantId = call[p].res.tokens.tenantId}}
               = {[userId |-> call[p].res.userId, role |-> "OWNER"]}

\* C7: every row of the refresh token store holds the SHA-256 digest of an
\* issued refresh token, and no row holds the raw value of a token returned
\* to a caller.
C7_TokenOpacity ==
    \A r \in refreshTokens :
        /\ r.token.sha256
        /\ r.token \notin {RefreshTokenOf(pl) : pl \in issued}
        /\ r.token \notin {AccessTokenOf(pl) : pl \in issued}

\* tokens returned by acceptInvitation and by another operation are stored
C7_Witness ==
    /\ \E p \in Procs : Ok(p, "accept")
    /\ \A pl \in issued : HashToken(RefreshTokenOf(pl)) \in {r.token : r \in refreshTokens}
    /\ Cardinality(issued) = MaxTokens

\* what logout answers on success: { message: 'Logged out successfully' }
LoggedOutResponse == [kind |-> "ok", error |-> "none", tokens |-> NoPayload,
                      userId |-> NoId]

\* C8: logout answers the same success response for every input, also when
\* the store's revoke throws.
C8_LogoutAlwaysSucceeds ==
    \A p \in Procs :
        (call[p].pc = "done" /\ call[p].op \in {"logout", "logoutStoreFailure"})
        => call[p].res = LoggedOutResponse

\* logout of a string that matches no row (revoke throws) answered success
C8_Witness ==
    \E p \in Procs :
        /\ Ok(p, "logout")
        /\ call[p].req.token.secret # "refresh"
        /\ FindRefreshByToken(call[p].req.token) = {}
        /\ refreshTokens # {}

InvalidCredentialsResponse ==
    [kind |-> "error", error |-> "InvalidCredentials", tokens |-> NoPayload,
     userId |-> NoId]

\* C10: login answers the one InvalidCredentials response both when no user
\* has the email and when the password does not match, and changes no store.
C10_LoginNoEnumeration ==
    [][\A p \in Procs :
          (/\ Answers(p, "login")
           /\ \A u \in FindByEmail(call'[p].req.email) :
                  ~BcryptCompare(call'[p].req.password, u.password))
          => /\ call'[p].res = InvalidCredentialsResponse
             /\ UNCHANGED <<stores, issued>>]_vars

\* a login with a wrong password for an existing user was refused
C10_Witness ==
    \E p \in Procs :
        /\ Err(p, "login", "InvalidCredentials")
        /\ \E u \in FindByEmail(call[p].req.email) :
               ~BcryptCompare(call[p].req.password, u.password)

\* C11: a login for a user that has no membership answers NoTenantAccess
\* when the password matches, issuing no token pair and adding no refresh
\* token row, and answers InvalidCredentials when the password does not match.
C11_LoginNoTenant ==
    [][\A p \in Procs :
          (/\ Answers(p, "login")
           /\ FindByEmail(call'[p].req.email) # {})
          => \A u \in FindByEmail(call'[p].req.email) :
                 {m \in memberships : m.userId = u.id} = {}
                 => /\ call'[p].res.kind = "error"
                    /\ call'[p].res.error =
                           IF BcryptCompare(call'[p].req.password, u.password)
                           THEN "NoTenantAccess"
                           ELSE "InvalidCredentials"
                    /\ call'[p].res.tokens = NoPayload
                    /\ UNCHANGED <<stores, issued>>]_vars

\* a login with the right password was refused because the user, still in
\* the users table, is a member of no tenant while another tenant has members
C11_Witness ==
    \E p \in Procs :
        /\ Err(p, "login", "NoTenantAccess")
        /\ \E u \in FindByEmail(call[p].req.email) :
               /\ BcryptCompare(call[p].req.password, u.password)
               /\ {m \in memberships : m.userId = u.id} = {}
        /\ memberships # {}

\* C12: a successful login carries the tenant of the user's earliest-created
\* membership: no membership of the user is older than the one whose tenant
\* is in the tokens.
C12_LoginEarliestMembership ==
    [][\A p \in Procs :
          (Answers(p, "login") /\ call'[p].res.kind = "ok")
          => \A m, n \in {x \in memberships : x.userId = call'[p].res.userId} :
                 m.tenantId = call'[p].res.tokens.tenantId
                 => m.createdAt <= n.createdAt]_vars

\* what refresh answers on AuthInvalidRefreshTokenException
InvalidRefreshTokenResponse ==
    [kind |-> "error", error |-> "InvalidRefreshToken", tokens |-> NoPayload,
     userId |-> NoId]

\* C13: refresh answers the one InvalidRefreshToken response, and issues
\* nothing, when the token fails signature or expiry verification, when no
\* row holds its hash, when its row is expired or revoked, and when its
\* subject is no user.
C13_RefreshSingleError ==
    [][\A p \in Procs :
          (/\ Answers(p, "refresh")
           /\ LET t == call'[p].req.token IN
              \/ t.secret # "refresh" \/ t.sha256 \/ t.pl \notin issued
              \/ ~(now < t.pl.iat + RefreshExpiresIn)
              \/ {r \in refreshTokens : r.token = HashToken(t)} = {}
              \/ \E r \in refreshTokens :
                     r.token = HashToken(t) /\ (r.revoked \/ now > r.expiresAt)
              \/ {u \in users : u.id = t.pl.sub} = {})
          => /\ call'[p].res = InvalidRefreshTokenResponse
             /\ UNCHANGED <<refreshTokens, issued>>]_vars

\* a refresh was refused for a token whose signature and expiry verify and
\* that no logout revoked: its row is gone, with its user
C13_Witness ==
    \E p \in Procs :
        /\ Err(p, "refresh", "InvalidRefreshToken")
        /\ VerifyRefresh(call[p].req.token)
        /\ FindRefreshByToken(call[p].req.token) = {}
        /\ FindById(call[p].req.token.pl.sub) = {}
        /\ users # {}

\* C14: a successful refresh issues tokens for the user and the tenant of the
\* presented token's payload, whether or not that membership still exists.
C14_RefreshKeepsPayload ==
    [][\A p \in Procs :
          (Answers(p, "refresh") /\ call'[p].res.kind = "ok")
          => /\ call'[p].res.tokens.sub = call'[p].req.token.pl.sub
             /\ call'[p].res.tokens.tenantId = call'[p].req.token.pl.tenantId
             /\ call'[p].res.userId = call'[p].req.token.pl.sub
             /\ call'[p].res.tokens \in issued']_vars

\* a refresh succeeded for a tenant the user is no longer a member of
C14_Witness ==
    \E p \in Procs :
        /\ Ok(p, "refresh")
        /\ FindById(call[p].res.tokens.sub) # {}
        /\ GetTenantUser(call[p].res.tokens.sub, call[p].res.tokens.tenantId) = {}
        /\ call[p].res.tokens.tenantId = call[p].req.token.pl.tenantId

\* the rows of a user that refresh would accept at this time
ValidRowsOf(uid) ==
    {r \in refreshTokens : r.userId = uid /\ ~r.revoked /\ ~(now > r.expiresAt)}

\* C15: a successful refresh leaves the presented token's row as it was and
\* adds one row: afterwards refresh accepts both the presented token and the
\* new one, and the user has one more valid refresh token.
C15_RefreshNoRotation ==
    [][\A p \in Procs :
          (Answers(p, "refresh") /\ call'[p].res.kind = "ok")
          => /\ \A t \in PresentableTokens :
                    t = call'[p].req.token => RefreshAccepts(t) /\ RefreshAccepts(t)'
             /\ \A pl \in issued' :
                    pl = call'[p].res.tokens
                    => /\ RefreshAccepts(RefreshTokenOf(pl))'
                       /\ RefreshTokenOf(pl) # call'[p].req.token
             /\ refreshTokens \subseteq refreshTokens'
             /\ \A u \in UserIds :
                    u = call'[p].res.userId
                    => Cardinality(ValidRowsOf(u)') = Cardinality(ValidRowsOf(u)) + 1]_vars

\* after a refresh, the presented token and the new one are both accepted
C15_Witness ==
    \E p \in Procs :
        /\ Ok(p, "refresh")
        /\ RefreshAccepts(call[p].req.token)
        /\ RefreshAccepts(RefreshTokenOf(call[p].res.tokens))
        /\ Cardinality(ValidRowsOf(call[p].res.userId)) = 2

\* C16: acceptInvitation of a valid invitation whose email is no user's:
\* without a password it answers PasswordRequired and writes nothing; with a
\* password it inserts one user with the invitation's email, then writes the
\* membership (that user, the invitation's tenant) with the invitation's role
\* and marks the invitation accepted, then issues tokens for that user and
\* that tenant.
C16_AcceptNewUser ==
    [][\A p \in Procs :
          LET loc == call[p].loc
              inv == {i \in invitations : i.id = loc.invId}
          IN
          /\ (/\ At(p, "accept", "findUser") /\ call'[p] # call[p]
              /\ {u \in users : u.email = loc.email} = {})
             => IF call[p].req.password = ""
                THEN /\ call'[p].pc = "done"
                     /\ call'[p].res.error = "PasswordRequired"
                     /\ call'[p].res.tokens = NoPayload
                     /\ UNCHANGED <<stores, issued>>
                ELSE call'[p].pc = "createUser" /\ UNCHANGED <<stores, issued>>
          /\ (At(p, "accept", "createUser") /\ call'[p].pc = "tx")
             => /\ \E u \in users' :
                       /\ users' = users \cup {u} /\ u \notin users
                       /\ u.email = loc.email
                       /\ u.id = call'[p].loc.userId
                       /\ BcryptCompare(call[p].req.password, u.password)
                /\ \A i \in inv : i.email = loc.email
          /\ (At(p, "accept", "tx") /\ call'[p].pc = "tokens")
             => /\ inv # {}
                /\ \A i \in inv :
                       /\ {[tenantId |-> m.tenantId, role |-> m.role] :
                              m \in {x \in memberships' : x.userId = loc.userId
                                                          /\ x.tenantId = i.tenantId}}
                              = {[tenantId |-> i.tenantId, role |-> i.role]}
                       /\ \A m \in memberships' \ memberships :
                              m.userId = loc.userId /\ m.tenantId = i.tenantId
                       /\ [i EXCEPT !.accepted = TRUE] \in invitations'
                /\ UNCHANGED users
          /\ (At(p, "accept", "tokens") /\ call'[p].res.kind = "ok")
             => /\ call'[p].res.tokens.sub = loc.userId
                /\ call'[p].res.tokens.tenantId = loc.tenantId
                /\ \A i \in inv : i.tenantId = loc.tenantId /\ i.accepted
                /\ call'[p].res.tokens \in issued']_vars

\* an invitation with role ADMIN has been accepted with a password by someone
\* who was no user: the user now exists, with that one membership
C16_Witness ==
    \E p \in Procs :
        /\ Ok(p, "accept")
        /\ call[p].req.password # ""
        /\ \E i \in invitations, u \in users :
               /\ i.token = call[p].req.invToken /\ i.accepted /\ i.role = "ADMIN"
               /\ u.id = call[p].res.userId /\ u.email = i.email
               /\ u.id # i.invitedBy
               /\ {[tenantId |-> m.tenantId, role |-> m.role] :
                      m \in {x \in memberships : x.userId = u.id}}
                      = {[tenantId |-> i.tenantId, role |-> "ADMIN"]}
               /\ call[p].res.tokens.tenantId = i.tenantId

\* C17: each tenant has at most one membership with role OWNER.
C17_AtMostOneOwner ==
    \A t \in tenants :
        Cardinality({m \in memberships : m.tenantId = t /\ m.role = "OWNER"}) <= 1

\* C18: while its tenant exists, a membership with role OWNER is neither
\* deleted nor given another role by any step.
C18_OwnerProtected ==
    [][\A m \in memberships :
          (m.role = "OWNER" /\ m.tenantId \in tenants')
          => \E n \in memberships' :
                 n.userId = m.userId /\ n.tenantId = m.tenantId /\ n.role = "OWNER"]_vars

\* C19: switchTenant(user, target) answers NoTenantAccess exactly when no
\* membership (user, target) exists at the time of the call, and changes no
\* store whatever it answers.
C19_SwitchTenantAccess ==
    [][\A p \in Procs :
          Answers(p, "switchTenant")
          => /\ (call'[p].res.kind = "error"
                 <=> {m \in memberships : m.userId = call'[p].req.userId
                                          /\ m.tenantId = call'[p].req.tenantId} = {})
             /\ call'[p].res.kind = "error" => call'[p].res.error = "NoTenantAccess"
             /\ call'[p].res.kind \in {"ok", "error"}
             /\ UNCHANGED <<stores, issued>>]_vars

\* a user of two tenants has switched to the tenant joined by invitation
C19_Witness ==
    \E p \in Procs :
        /\ Ok(p, "switchTenant")
        /\ Cardinality({m \in memberships : m.userId = call[p].req.userId}) = 2
        /\ \E m \in memberships :
               /\ m.userId = call[p].req.userId /\ m.tenantId = call[p].req.tenantId
               /\ m.createdAt > 0

C21_RoleGate ==
    [][\A p \in Procs :
          (call'[p] # call[p] /\ call'[p].op \in GatedOps /\ call'[p].pc = "done") =>
              LET tok == call'[p].req.token
                  held == {m \in memberships :
                              m.userId = tok.pl.sub /\ m.tenantId = tok.pl.tenantId}
                  allowed == \E m \in held : m.role \in RequiredRoles(call'[p].op)
              IN
              /\ call'[p].res.kind = "ok" => allowed
              /\ (VerifyAccess(tok) /\ FindById(tok.pl.sub) # {} /\ held # {} /\ ~allowed)
                     => call'[p].res.error = "Forbidden"
              /\ call'[p].res.error \in {"Forbidden", "Unauthenticated"}
                     => UNCHANGED stores]_vars

\* an ADMIN of the tenant has been refused the deletion of the tenant
C21_Witness ==
    \E p \in Procs :
        /\ call[p].op = "deleteTenant"
        /\ call[p].res.error = "Forbidden"
        /\ \E m \in memberships :
               /\ m.userId = call[p].req.userId
               /\ m.tenantId = call[p].req.tenantId
               /\ m.role = "ADMIN"

\* C22: every step of an item route leaves the items of every tenant other
\* than the caller's resolved tenant as they are; the rows a route returns
\* all carry the caller's tenantId; and a read, update or delete by id of an
\* item of another tenant is refused, with ItemForbidden when the caller is
\* authenticated.
C22_TenantIsolation ==
    [][\A p \in Procs :
          (call'[p] # call[p] /\ call'[p].op \in ItemOps) =>
              LET tid == call'[p].req.tenantId
                  foreign == {i \in items : i.id = call'[p].req.itemId /\ i.tenantId # tid}
              IN
              /\ {i \in items' : i.tenantId # tid} = {i \in items : i.tenantId # tid}
              /\ call'[p].res.kind = "ok" =>
                     \A i \in call'[p].res.items : i.tenantId = tid
              /\ (call'[p].op \in {"findOneItem", "updateItem", "deleteItem"}
                      /\ call[p].pc # "write" /\ foreign # {})
                     => /\ call'[p].res.kind = "error"
                        /\ call'[p].res.error \in {"ItemForbidden", "Unauthenticated"}
                        /\ VerifyAccess(call'[p].req.token)
                               /\ UserExistsInTenant(call'[p].req.userId, tid)
                               => call'[p].res.error = "ItemForbidden"]_vars

\* a member of one workspace has been refused the deletion of an item that
\* the other workspace still holds
C22_Witness ==
    \E p \in Procs :
        /\ call[p].op = "deleteItem"
        /\ call[p].res.error = "ItemForbidden"
        /\ \E i \in items : i.id = call[p].req.itemId /\ i.tenantId # call[p].req.tenantId
        /\ \E i \in items : i.tenantId = call[p].req.tenantId

\* C23: in every reachable state each membership, invitation and item
\* belongs to a stored tenant, and each membership and refresh-token row to a
\* stored user: the rows of a deleted tenant or user are deleted with it, and
\* no handler in flight writes a row for a tenant or user that is gone.
C23_ReferentialIntegrity ==
    /\ \A m \in memberships :
           m.tenantId \in tenants /\ \E u \in users : u.id = m.userId
    /\ \A i \in invitations : i.tenantId \in tenants
    /\ \A i \in items : i.tenantId \in tenants
    /\ \A r \in refreshTokens : \E u \in users : u.id = r.userId

\* a tenant that had an invitation and an item has been deleted by its
\* owner, and a user has been deleted as well
C23_Witness ==
    /\ \E p \in Procs :
           /\ Ok(p, "deleteTenant")
           /\ call[p].req.tenantId \notin tenants
    /\ nextId.invitation > 0 /\ invitations = {}
    /\ nextId.item > 0 /\ items = {}
    /\ Cardinality(users) < nextId.user

\* C24: the transaction of register is all or nothing: when it fails, also
\* with TenantNotFound, which is detected after the user insert, it leaves
\* the users, tenants and memberships as they were; when it succeeds the
\* user it created has a membership; and every stored user has one.
C24_RegisterAtomic ==
    [][/\ \A p \in Procs :
              (At(p, "register", "tx") /\ call'[p] # call[p]) =>
                  IF call'[p].pc = "done"
                  THEN UNCHANGED <<users, tenants, memberships>>
                  ELSE \E u \in users' \ users :
                          /\ users' = users \cup {u}
                          /\ u.id = call'[p].loc.userId
                          /\ \E m \in memberships' \ memberships :
                                 /\ m.userId = u.id
                                 /\ m.tenantId \in tenants'
                                 /\ memberships' = memberships \cup {m}
       /\ \A u \in users' : \E m \in memberships' : m.userId = u.id]_vars

\* a register naming a tenant that does not exist has failed while another
\* user is registered
C24_Witness ==
    /\ \E p \in Procs : Err(p, "register", "TenantNotFound")
    /\ users # {}

\* C25: acceptInvitation leaves no partial result: a user it created is
\* stored only together with the membership the call goes on to write, so
\* every stored user has a membership or is the user of a call that has yet
\* to run its transaction.
C25_AcceptNoOrphanUser ==
    \A u \in users :
        \/ \E m \in memberships : m.userId = u.id
        \/ \E p \in Procs : At(p, "accept", "tx") /\ call[p].loc.userId = u.id

AcceptCheckErrors ==
    {"InvitationNotFound", "InvitationAlreadyAccepted", "InvitationExpired",
     "PasswordRequired"}

\* C27: acceptInvitation answers the error of the first check that fails, in
\* the order unknown token, accepted, past expiry, no user and no password;
\* an invitation both accepted and expired gives InvitationAlreadyAccepted;
\* a call that fails one of these checks has written no store and issued no
\* token.
C27_AcceptCheckOrder ==
    [][\A p \in Procs :
          (call'[p] # call[p] /\ call'[p].op = "accept") =>
              LET found == {i \in invitations : i.token = call'[p].req.invToken}
                  error == call'[p].res.error
              IN
              /\ CanStart(p) =>
                     /\ UNCHANGED <<stores, issued>>
                     /\ IF found = {} THEN error = "InvitationNotFound"
                        ELSE \A i \in found :
                             IF i.accepted THEN error = "InvitationAlreadyAccepted"
                             ELSE IF now > i.expiresAt THEN error = "InvitationExpired"
                             ELSE call'[p].pc = "findUser"
              /\ call[p].pc = "findUser" =>
                     /\ UNCHANGED <<stores, issued>>
                     /\ error = "PasswordRequired" <=>
                            /\ call[p].req.password = ""
                            /\ \A u \in users : u.email # call[p].loc.email
                     /\ error \in {"PasswordRequired", "none"}
              /\ error \in AcceptCheckErrors => CanStart(p) \/ call[p].pc = "findUser"]_vars

\* a call has been answered InvitationAlreadyAccepted and its invitation is
\* both accepted and past its expiry
C27_Witness ==
    \E p \in Procs :
        /\ Err(p, "accept", "InvitationAlreadyAccepted")
        /\ \E i \in invitations :
               i.token = call[p].req.invToken /\ i.accepted /\ now > i.expiresAt

\* C28: an acceptInvitation that starts when the expiry of its invitation has
\* passed and the invitation is not accepted is answered InvitationExpired at
\* once and writes nothing: the accepted flag stays false and no membership
\* and no user results from the call.
C28_ExpiredNeverAccepted ==
    [][\A p \in Procs :
          (CanStart(p) /\ call'[p] # call[p] /\ call'[p].op = "accept") =>
              \A i \in invitations :
                  (i.token = call'[p].req.invToken /\ ~i.accepted /\ now > i.expiresAt) =>
                      /\ call'[p].pc = "done"
                      /\ call'[p].res.error = "InvitationExpired"
                      /\ i \in invitations'
                      /\ UNCHANGED <<users, memberships, invitations, refreshTokens,
                                     issued>>]_vars

\* a call has been answered InvitationExpired and its invitation is stored,
\* past its expiry and not accepted
C28_Witness ==
    \E p \in Procs :
        /\ Err(p, "accept", "InvitationExpired")
        /\ \E i \in invitations :
               i.token = call[p].req.invToken /\ ~i.accepted /\ now > i.expiresAt

\* C28 as stated: an invitation whose expiry has passed without acceptance
\* is never accepted: no later step sets its accepted flag.
C28_NoAcceptanceAfterExpiry ==
    [][\A i \in invitations :
          (~i.accepted /\ now > i.expiresAt) =>
              \A j \in invitations' : j.id = i.id => ~j.accepted]_vars

\* C29: the accepted flag of an invitation, once true, is true in every later
\* state in which the invitation is stored, whatever operations follow.
C29_AcceptedIsStable ==
    [][\A i \in invitations :
          i.accepted => \A j \in invitations' : j.id = i.id => j.accepted]_vars

\* both requests have run the transaction for the same invitation, which is
\* accepted
C29_Witness ==
    \E i \in invitations :
        /\ i.accepted
        /\ \A p \in Procs :
               /\ call[p].op = "accept"
               /\ call[p].req.invToken = i.token
               /\ At(p, "accept", "tokens") \/ Ok(p, "accept")

\* C30: when the user of an acceptInvitation already is a member of the
\* invitation's tenant, the transaction leaves exactly one membership row for
\* the pair, the row that was there with its role set to the invitation's
\* role, and every other row as it was; and at no time do two rows share a
\* (user, tenant) pair.
C30_UpsertKeepsOneRow ==
    [][/\ \A p \in Procs :
              (At(p, "accept", "tx") /\ call'[p].pc = "tokens") =>
                  \A m \in memberships :
                      (m.userId = call[p].loc.userId /\ m.tenantId = call[p].loc.tenantId)
                          => memberships' = (memberships \ {m})
                                 \cup {[m EXCEPT !.role = call[p].loc.role]}
       /\ \A m1, m2 \in memberships' :
              (m1.userId = m2.userId /\ m1.tenantId = m2.tenantId) => m1 = m2]_vars

\* the user who registered workspace 1 has accepted an invitation to it with
\* another role: its row carries the new role and keeps its creation time
C30_Witness ==
    \E p \in Procs :
        /\ At(p, "accept", "tokens")
        /\ \E m \in memberships :
               /\ m.userId = call[p].loc.userId /\ m.tenantId = call[p].loc.tenantId
               /\ m.userId = 1 /\ m.tenantId = 1
               /\ m.role = call[p].loc.role
               /\ m.role # "OWNER"
               /\ m.createdAt = 0

IssuingOps == {"register", "login", "refresh", "accept"}

\* C31: a call that issues tokens answers them only together with the insert
\* of the refresh token's row: an ok answer carries a pair whose refresh
\* token has a row that the answering step added, for the user of the pair;
\* an error answer carries no token, adds no row and issues nothing.
C31_IssuanceAtomic ==
    [][\A p \in Procs :
          (call'[p] # call[p] /\ call'[p].op \in IssuingOps /\ call'[p].pc = "done") =>
              IF call'[p].res.kind = "ok"
              THEN /\ call'[p].res.tokens \in issued'
                   /\ \E r \in refreshTokens' \ refreshTokens :
                          /\ r.token = HashToken(RefreshTokenOf(call'[p].res.tokens))
                          /\ r.userId = call'[p].res.tokens.sub
                          /\ refreshTokens' = refreshTokens \cup {r}
              ELSE /\ call'[p].res.tokens = NoPayload
                   /\ UNCHANGED <<refreshTokens, issued>>]_vars

\* a login has failed on the insert of the refresh token's row: the pair it
\* signed equals the one a stored row was issued for
C31_Witness ==
    \E p \in Procs :
        /\ Err(p, "login", "InternalError")
        /\ \E r \in refreshTokens, m \in memberships :
               /\ m.userId = r.userId
               /\ r.token = HashToken(RefreshTokenOf(Payload(r.userId, m.tenantId, now)))

\* C32: the expiry stored with a refresh token's row equals the expiry the
\* signed token carries, whatever refresh lifetime is configured.
C32_StoredExpiryMatches ==
    \A r \in refreshTokens, pl \in issued :
        r.token = HashToken(RefreshTokenOf(pl)) =>
            r.expiresAt = pl.iat + RefreshExpiresIn

C34_AccessNeedsMembership ==
    [][\A p \in Procs :
          (Answers(p, "validate") /\ call'[p].res.kind = "ok") =>
              LET pl == call'[p].req.token.pl IN
              /\ call'[p].req.token.secret = "access"
              /\ pl \in issued
              /\ \E u \in users : u.id = pl.sub
              /\ \E m \in memberships : m.userId = pl.sub /\ m.tenantId = pl.tenantId
              /\ call'[p].res.tokens = pl]_vars

\* an access check has passed for a token issued after registration, and one
\* of the stored users has no membership any more
C34_Witness ==
    \E p \in Procs :
        /\ Ok(p, "validate")
        /\ call[p].req.token.pl.iat > 0
        /\ \E u \in users : TenantUsersOf(u.id) = {}

\* C35: the refresh token of every issuance hashes to a value no stored row
\* has, so an issuance never fails on the unique index of the hashed token:
\* a login with the right password of a user with a membership succeeds, and
\* so does a refresh with a token that refresh accepts.
C35_IssuanceNeverCollides ==
    [][\A p \in Procs :
          /\ (/\ Answers(p, "login")
              /\ \E u \in users :
                     /\ u.email = call'[p].req.email
                     /\ BcryptCompare(call'[p].req.password, u.password)
                     /\ TenantUsersOf(u.id) # {})
                 => call'[p].res.kind = "ok"
          /\ (/\ Answers(p, "refresh")
              /\ \E t \in PresentableTokens :
                     t = call'[p].req.token /\ RefreshAccepts(t))
                 => call'[p].res.kind = "ok"]_vars

\* C36: logout(t) changes at most the revoked flag of the one row whose
\* token is the hash of t: every other row, also of the same user, stays as
\* it is, no row is added or removed, no other store and no issued token
\* changes, and nothing changes when no row matches t.
C36_LogoutFrame ==
    [][\A p \in Procs :
          Answers(p, "logout") =>
              LET t == call'[p].req.token IN
              /\ UNCHANGED <<users, tenants, memberships, invitations, items, issued>>
              /\ \A r \in refreshTokens :
                     IF r.token = HashToken(t)
                     THEN [r EXCEPT !.revoked = TRUE] \in refreshTokens'
                     ELSE r \in refreshTokens'
              /\ Cardinality(refreshTokens') = Cardinality(refreshTokens)
              /\ (\A r \in refreshTokens : r.token # HashToken(t))
                     => UNCHANGED refreshTokens]_vars

\* a user with two stored refresh tokens has logged out with one of them:
\* its row is revoked and the other is not
C36_Witness ==
    \E p \in Procs :
        /\ Ok(p, "logout")
        /\ \E r1, r2 \in refreshTokens :
               /\ r1.userId = r2.userId
               /\ r1.token = HashToken(call[p].req.token) /\ r1.revoked
               /\ r2.token # r1.token /\ ~r2.revoked

\* C37: changePassword changes nothing but the password hash of the user it
\* names: a wrong current password is answered UserIncorrectPassword with no
\* change; a success stores the hash of the new password and leaves every
\* other user, every refresh-token row and every other store as it was, so
\* each refresh token that refresh accepted before is accepted after.
C37_ChangePasswordFrame ==
    [][\A p \in Procs :
          (call'[p] # call[p] /\ call'[p].op = "changePassword") =>
              LET req == call'[p].req IN
              /\ UNCHANGED <<tenants, memberships, invitations, refreshTokens, items, issued>>
              /\ \A t \in PresentableTokens : RefreshAccepts(t) => RefreshAccepts(t)'
              /\ CanStart(p) =>
                     /\ UNCHANGED users
                     /\ (\E u \in users : u.id = req.userId
                                          /\ u.password # BcryptHash(req.password))
                            => call'[p].res.error = "UserIncorrectPassword"
              /\ call'[p].res.kind = "error" => UNCHANGED users
              /\ call'[p].res.kind = "ok" =>
                     users' = {IF u.id = req.userId
                               THEN [u EXCEPT !.password = BcryptHash(req.newPassword)]
                               ELSE u : u \in users}]_vars

\* a user whose password has been changed holds a refresh token, issued
\* under the old password, that refresh accepts
C37_Witness ==
    \E p \in Procs :
        /\ Ok(p, "changePassword")
        /\ call[p].req.newPassword # call[p].req.password
        /\ \E u \in users :
               u.id = call[p].req.userId /\ u.password = BcryptHash(call[p].req.newPassword)
        /\ \E t \in PresentableTokens :
               t.pl.sub = call[p].req.userId /\ RefreshAccepts(t)

\* C38: an acceptInvitation call whose user lookup finds a User of the
\* invitation's email goes on with that User: it neither asks for a password
\* nor inserts a row, no step of it changes the users table, no two rows ever
\* share an email, and the token pair it returns is signed for that User and
\* the invitation's tenant, with or without a password in the request.
C38_AcceptKeepsExistingUser ==
    [][\A p \in Procs :
          (call'[p] # call[p] /\ call[p].op = "accept") =>
              /\ \A u \in users :
                     (call[p].pc = "findUser" /\ u.email = call[p].loc.email) =>
                         /\ call'[p].pc = "tx"
                         /\ call'[p].loc.userId = u.id
              /\ call[p].pc \in {"findUser", "tx", "tokens"} =>
                     /\ UNCHANGED users
                     /\ (call[p].pc = "tx" /\ call'[p].pc = "tokens") =>
                            call'[p].loc.userId = call[p].loc.userId
              /\ \A u, v \in users' : u.email = v.email => u = v
              /\ (call[p].pc = "tokens" /\ call'[p].res.kind = "ok") =>
                     /\ call'[p].res.userId = call[p].loc.userId
                     /\ call'[p].res.tokens.sub = call[p].loc.userId
                     /\ call'[p].res.tokens.tenantId = call[p].loc.tenantId
                     /\ RefreshRow(call[p].loc.userId, RefreshTokenOf(call'[p].res.tokens))
                            \in refreshTokens']_vars

\* the registered user has accepted an invitation with a password in the
\* request that is not its own: it is still the only row and keeps its hash
C38_Witness ==
    \E p \in Procs :
        /\ Ok(p, "accept")
        /\ call[p].req.password = "Aa1!aaaa"
        /\ call[p].res.userId = 1
        /\ users = {[id |-> 1, email |-> "a@x.com", password |-> BcryptHash("Bb2?bbbb")]}

\* C39: a purge removes exactly the rows whose stored expiry lies before the
\* time of the purge and changes nothing else; refresh answers every token
\* after the purge as it did before it, and a row that a purge may remove
\* stays one that refresh rejects at every later time, purged or not, because
\* the clock never goes back and no step moves a stored expiry.
C39_PurgeKeepsRefreshOutcome ==
    [][/\ (refreshTokens' # refreshTokens /\ refreshTokens' \subseteq refreshTokens) =>
              /\ refreshTokens \ refreshTokens' = {r \in refreshTokens : r.expiresAt < now}
              /\ UNCHANGED <<users, tenants, memberships, invitations, items, issued, call, now>>
              /\ \A t \in PresentableTokens : RefreshAccepts(t) <=> RefreshAccepts(t)'
       /\ \A r \in refreshTokens :
              r.expiresAt < now =>
                  /\ ~RefreshIsValid(r)
                  /\ \A q \in refreshTokens' :
                         q.token = r.token => q.expiresAt < now' /\ q.expiresAt = r.expiresAt
                  /\ \A t \in PresentableTokens :
                         HashToken(t) = r.token => ~RefreshAccepts(t) /\ ~RefreshAccepts(t)']_vars

\* the row of a refresh token has been purged while the token's signature
\* and own expiry still verify and its user exists
C39_Witness ==
    \E pl \in issued :
        /\ VerifyRefresh(RefreshTokenOf(pl))
        /\ FindRefreshByToken(RefreshTokenOf(pl)) = {}
        /\ FindById(pl.sub) # {}
        /\ now > pl.iat + RefreshStoreTTL

====
